---- MODULE Spec2Model ----
(***************************************************************************)
(* A model of bthread's stack storage allocator (src/bthread/stack.cpp)    *)
(* and of its context switch primitive (src/bthread/context.cpp,           *)
(* linux_x86_64).                                                          *)
(*                                                                         *)
(* Integers keep a width: int is IntBits wide and wraps, pointers and      *)
(* size_t are PtrBits = 2 * IntBits wide (LP64).  The widths and the page  *)
(* size are scaled down; every size the model uses is stated relative to   *)
(* PAGESIZE and INT_MAX.                                                   *)
(***************************************************************************)
EXTENDS Integers, Sequences, FiniteSets, TLC

\* ------------------------------------------------------------------ bounds
PageShift == 4
IntBits == 8
NThreads == 2
\* The contexts made besides the thread's own, and the words of a stack.
NCtx == 1
StackWords == 24
\* The jumps of a run.
MaxJumps == 3

\* --------------------------------------------------------- machine integers
PtrBits == 2 * IntBits
INT_MAX == 2^(IntBits - 1) - 1
INT_MIN == -(2^(IntBits - 1))
NULL == 0
\* (void*)-1
MAP_FAILED == 2^PtrBits - 1
\* The highest user-space address + 1: no object reaches beyond it.
TASK_SIZE == 2^(PtrBits - 1)

Max(a, b) == IF a >= b THEN a ELSE b

\* int arithmetic: the two's complement value of x in IntBits bits.
WrapInt(x) == ((x - INT_MIN) % 2^IntBits) + INT_MIN
\* An int converted to size_t / uintptr_t, and pointer arithmetic.
ToSizeT(x) == x % 2^PtrBits

RECURSIVE BitAnd(_, _, _)
BitAnd(a, b, n) ==
    IF n = 0 THEN 0
    ELSE (a % 2) * (b % 2) + 2 * BitAnd(a \div 2, b \div 2, n - 1)

\* x & y on ints, and ~x.
IntAnd(x, y) == WrapInt(BitAnd(x % 2^IntBits, y % 2^IntBits, IntBits))
IntNot(x) == WrapInt(-x - 1)
\* x & y on intptr_t (y an int, sign-extended), as an address.
PtrAnd(x, y) == BitAnd(ToSizeT(x), ToSizeT(y), PtrBits)

\* ------------------------------------------------- allocate: the constants
PAGESIZE == 2^PageShift
PAGESIZE_M1 == PAGESIZE - 1
MIN_STACKSIZE == PAGESIZE * 2
MIN_GUARDSIZE == PAGESIZE

Threads == 1 .. NThreads

\* The requests of the caller under test: the floor, a size between two
\* page multiples, the largest sizes an int holds.
StackSizesIn ==
    {1, MIN_STACKSIZE + 1, INT_MAX - PAGESIZE_M1, INT_MAX}
GuardSizesIn ==
    {-1, 0, 1, MIN_GUARDSIZE + 1, INT_MAX}
\* The requests of the concurrent callers: one of each path.
StackSizesBg == {1}
GuardSizesBg == {0, 1}

\* ---------------------------------------------------------------- state
VARIABLES
    s_stack_count,  \* the live-stack counter
    s,              \* s[t]: the StackStorage thread t passes
    pc,             \* pc[t]: where thread t is in the call it runs
    lv,             \* lv[t]: the locals of that call
    ret,            \* ret[t]: what the call returned
    heap,           \* the live malloc blocks [base, size]
    maps,           \* the live mappings [base, len]
    noaccess,       \* the pages protected PROT_NONE
    on_valgrind,    \* RunningOnValgrind()
    vg_stacks,      \* the stacks registered with valgrind [id, start, end]
    live,           \* live[t]: s[t] holds a storage not yet deallocated
    old,            \* old[t]: the state when t's call was entered
    trace,          \* trace[t]: the library and OS calls of t's call
    pairStart,      \* pairStart[t]: the state when t's last allocate was
                    \* entered
    logged_once     \* LOG_ONCE has logged the misaligned address

stackvars ==
    <<s_stack_count, s, pc, lv, ret, heap, maps, noaccess, on_valgrind,
      vg_stacks, live, old, trace, pairStart, logged_once>>

\* The context switch primitive: one OS thread, its CPU and memory.
VARIABLES
    cpu,        \* the machine: cpu.reg the registers, cpu.mem the memory
    status,     \* status[c]: what the scheduler knows of context c
    started,    \* started[c]: how often c's entry function was started
    arg,        \* arg[c]: the argument c's entry function was started with
    v0,         \* v0[c]: the value of the first jump into c
    entry_sp,   \* entry_sp[c]: the stack pointer c's entry function got
    last,       \* what the last jump passed and what the resumed code got
    njumps,     \* the jumps made so far
    returned,   \* an entry function has returned
    exited,     \* _exit has been called
    site,       \* site[c]: the machine at c's latest call of jump_fcontext,
                \* or at the call of make_fcontext that made c
    platform    \* the variant of context.cpp that is compiled in

ctxvars ==
    <<cpu, status, started, arg, v0, entry_sp, last, njumps, returned, exited,
      site, platform>>

vars == <<stackvars, ctxvars>>

ZeroStorage == [bottom |-> 0, stacksize |-> 0, guardsize |-> 0,
                valgrind_stack_id |-> 0]
NoLocals == [fn |-> "none", stacksize_in |-> 0, guardsize_in |-> 0,
             stacksize |-> 0, guardsize |-> 0, memsize |-> 0, mem |-> 0]
NoSnap == [valid |-> FALSE, s |-> ZeroStorage, count |-> 0, heap |-> {},
           maps |-> {}, noaccess |-> {}]
Snap(t) == [valid |-> TRUE, s |-> s[t], count |-> s_stack_count,
            heap |-> heap, maps |-> maps, noaccess |-> noaccess]
\* The handles a caller may pass to deallocate without having allocated:
\* zero-initialized, bottom below or at the sizes' sum, a sum beyond int.
DegenerateHandles ==
    {ZeroStorage,
     [ZeroStorage EXCEPT !.bottom = 1, !.stacksize = MIN_STACKSIZE],
     [ZeroStorage EXCEPT !.bottom = MIN_STACKSIZE + MIN_GUARDSIZE,
                         !.stacksize = MIN_STACKSIZE,
                         !.guardsize = MIN_GUARDSIZE],
     [ZeroStorage EXCEPT !.bottom = PAGESIZE, !.stacksize = INT_MAX,
                         !.guardsize = INT_MAX]}

Ev(op, a, b, r) == [op |-> op, a |-> a, b |-> b, r |-> r]

\* ----------------------------------------------------- the OS and the libc
\* The pages [addr, addr + len) touches.
Pages(addr, len) ==
    IF len <= 0 THEN {}
    ELSE (addr \div PAGESIZE) .. ((addr + len - 1) \div PAGESIZE)

MappedPages == UNION {Pages(m.base, m.len) : m \in maps}
HeapPages == UNION {Pages(b.base, b.size) : b \in heap}

\* Where the OS and the allocator place a region asked for by thread t: in
\* the part of the address space t's regions come from, a mapping possibly
\* off the page boundary (a platform without a page-aligned mmap).
ArenaBase(t) == t * 2^IntBits
MisalignOffsets == {0, 1, PAGESIZE_M1}
MmapBases(t) == {ArenaBase(t) + o : o \in MisalignOffsets}

Fits(base, n) ==
    /\ n > 0
    /\ base + n <= TASK_SIZE
    /\ Pages(base, n) \cap (MappedPages \cup HeapPages) = {}

\* malloc(n): NULL, or the base of a fresh block of n bytes.
MallocResults(t, n) == {NULL} \cup {b \in {ArenaBase(t)} : Fits(b, n)}
\* mmap(NULL, len, ...): MAP_FAILED, or the base of a fresh mapping.
MmapResults(t, len) ==
    {MAP_FAILED} \cup {b \in MmapBases(t) : Fits(b, len)}

\* What munmap(addr, len) leaves: every mapping inside the range goes.
MunmapMaps(addr, len) ==
    {m \in maps : ~(Pages(m.base, m.len) \subseteq Pages(addr, len))}
MunmapNoaccess(addr, len) == noaccess \ Pages(addr, len)
\* What free(p) leaves.
FreeHeap(p) == {b \in heap : b.base # p}

\* VALGRIND_STACK_REGISTER: a fresh id.
FreshStackId ==
    CHOOSE i \in 1 .. (Cardinality(vg_stacks) + 1) :
        \A r \in vg_stacks : r.id # i

\* ------------------------------------------------ allocate_stack_storage
\* The texts of the diagnostics.
LOG_MALLOC == "Fail to malloc (size="
LOG_MMAP ==
    "Fail to mmap size= stack_count= , possibly limited by max_map_count"
LOG_ALIGN == "addr= returned by mmap is not aligned by pagesize="
LOG_MPROTECT == "Fail to mprotect  length="
\* PLOG_EVERY_SECOND: the line is written, or suppressed within the second.
EverySecond(ev) == {<<>>, <<ev>>}
malloc_failure_log(stacksize) == Ev(LOG_MALLOC, stacksize, 0, 0)
\* A variant that reports a failed mmap in the words of a failed malloc.
mmap_failure_log_as_malloc(memsize, count) == Ev(LOG_MALLOC, memsize, 0, 0)
mmap_failure_log(memsize, count) == Ev(LOG_MMAP, memsize, count, 0)
align_log(mem) == Ev(LOG_ALIGN, mem, PAGESIZE, 0)
mprotect_failure_log(aligned_mem, len) ==
    Ev(LOG_MPROTECT, aligned_mem, len, 0)
\* A variant without the rounding up to a page multiple.
stacksize_unrounded(stacksize_in) ==
    WrapInt(Max(stacksize_in, MIN_STACKSIZE))

stacksize_of(stacksize_in) ==
    IntAnd(WrapInt(Max(stacksize_in, MIN_STACKSIZE) + PAGESIZE_M1),
           IntNot(PAGESIZE_M1))

\* A variant that rounds the requested guard size down, without the floor.
guardsize_rounded_down(guardsize_in) ==
    IntAnd(guardsize_in, IntNot(PAGESIZE_M1))

guardsize_of(guardsize_in) ==
    IntAnd(WrapInt(Max(guardsize_in, MIN_GUARDSIZE) + PAGESIZE_M1),
           IntNot(PAGESIZE_M1))

memsize_of(stacksize, guardsize) == WrapInt(stacksize + guardsize)

aligned_mem_of(mem) ==
    PtrAnd(ToSizeT(mem + PAGESIZE_M1), IntNot(PAGESIZE_M1))

offset_of(mem) == WrapInt(aligned_mem_of(mem) - mem)

\* A variant that takes the malloc path for negative guard sizes only.
unguarded_strict(guardsize_in) == guardsize_in < 0
\* if (guardsize_in <= 0): the malloc path.
unguarded(guardsize_in) == guardsize_in <= 0

\* A variant whose increment is lost.
fetch_add_lost(v, d) == v
fetch_add(v, d) == v + d
\* A variant whose decrement is lost.
fetch_sub_lost(v, d) == v
fetch_sub(v, d) == v - d

\* The entry of allocate_stack_storage(s, stacksize_in, guardsize_in), up to
\* and including the malloc or the mmap.
allocate_stack_storage(t, stacksize_in, guardsize_in) ==
    /\ pc[t] = "idle"
    /\ UNCHANGED <<ctxvars, logged_once>>
    /\ ~live[t]
    /\ LET stacksize == stacksize_of(stacksize_in)
           guardsize == guardsize_of(guardsize_in)
           memsize == memsize_of(stacksize, guardsize)
           n == IF unguarded(guardsize_in) THEN ToSizeT(stacksize)
                ELSE ToSizeT(memsize)
       IN  \E mem \in (IF unguarded(guardsize_in) THEN MallocResults(t, n)
                       ELSE MmapResults(t, n)) :
           \E lg \in (IF unguarded(guardsize_in) /\ mem = NULL
                      THEN EverySecond(malloc_failure_log(stacksize))
                      ELSE IF ~unguarded(guardsize_in) /\ mem = MAP_FAILED
                      THEN EverySecond(mmap_failure_log(memsize,
                                                        s_stack_count))
                      ELSE {<<>>}) :
             /\ lv' = [lv EXCEPT ![t] =
                    [fn |-> "allocate",
                     stacksize_in |-> stacksize_in,
                     guardsize_in |-> guardsize_in,
                     stacksize |-> stacksize,
                     guardsize |-> IF unguarded(guardsize_in) THEN 0
                                   ELSE guardsize,
                     memsize |-> IF unguarded(guardsize_in) THEN stacksize
                                 ELSE memsize,
                     mem |-> mem]]
             /\ trace' = [trace EXCEPT ![t] =
                    <<Ev(IF unguarded(guardsize_in) THEN "malloc" ELSE "mmap",
                         n, 0, mem)>> \o lg]
             /\ IF unguarded(guardsize_in)
                THEN /\ heap' = IF mem = NULL THEN heap
                                ELSE heap \cup {[base |-> mem, size |-> n]}
                     /\ maps' = maps
                     /\ pc' = [pc EXCEPT ![t] =
                            IF mem = NULL THEN "ret" ELSE "a_finish"]
                     /\ ret' = [ret EXCEPT ![t] =
                            IF mem = NULL THEN -1 ELSE 0]
                ELSE /\ maps' = IF mem = MAP_FAILED THEN maps
                                ELSE maps \cup {[base |-> mem, len |-> n]}
                     /\ heap' = heap
                     /\ pc' = [pc EXCEPT ![t] =
                            IF mem = MAP_FAILED THEN "ret" ELSE "a_protect"]
                     /\ ret' = [ret EXCEPT ![t] =
                            IF mem = MAP_FAILED THEN -1 ELSE 0]
    /\ UNCHANGED <<s_stack_count, s, noaccess, on_valgrind, vg_stacks, live>>

\* The guarded path: the alignment offset and the mprotect of the guard.
allocate_protect(t) ==
    /\ pc[t] = "a_protect"
    /\ UNCHANGED ctxvars
    /\ LET mem == lv[t].mem
           aligned_mem == aligned_mem_of(mem)
           offset == offset_of(mem)
           len == lv[t].guardsize - offset
           \* LOG_ONCE(ERROR) when aligned_mem != mem
           lg == IF aligned_mem # mem /\ ~logged_once
                 THEN <<align_log(mem)>> ELSE <<>>
       IN  /\ logged_once' = (logged_once \/ aligned_mem # mem)
           /\ IF lv[t].guardsize <= offset
              THEN /\ pc' = [pc EXCEPT ![t] = "a_unmap"]
                   /\ trace' = [trace EXCEPT ![t] = @ \o lg]
                   /\ UNCHANGED noaccess
              ELSE \E ok \in BOOLEAN :
                  /\ trace' = [trace EXCEPT ![t] =
                         Append(@ \o lg,
                                Ev("mprotect", aligned_mem, len,
                                   IF ok THEN 0 ELSE -1))]
                  /\ noaccess' = IF ok
                                 THEN noaccess \cup Pages(aligned_mem, len)
                                 ELSE noaccess
                  /\ pc' = [pc EXCEPT ![t] =
                         IF ok THEN "a_finish" ELSE "a_unmap"]
    /\ UNCHANGED <<s_stack_count, s, lv, ret, heap, maps, on_valgrind,
                   vg_stacks, live, old, pairStart>>

\* A variant that returns -1 without the munmap.
allocate_unmap_leak(t) ==
    /\ pc[t] = "a_unmap"
    /\ UNCHANGED <<ctxvars, logged_once>>
    /\ ret' = [ret EXCEPT ![t] = -1]
    /\ pc' = [pc EXCEPT ![t] = "ret"]
    /\ UNCHANGED <<s_stack_count, s, lv, heap, maps, noaccess, on_valgrind,
                   vg_stacks, live, old, trace, pairStart>>

\* The failure of the protection step: munmap(mem, memsize), return -1.
allocate_unmap(t) ==
    /\ pc[t] = "a_unmap"
    /\ UNCHANGED <<ctxvars, logged_once>>
    /\ LET len == ToSizeT(lv[t].memsize)
           aligned_mem == aligned_mem_of(lv[t].mem)
           plen == lv[t].guardsize - offset_of(lv[t].mem)
       IN  /\ maps' = MunmapMaps(lv[t].mem, len)
           /\ noaccess' = MunmapNoaccess(lv[t].mem, len)
           /\ \E lg \in EverySecond(mprotect_failure_log(aligned_mem, plen)) :
                 trace' = [trace EXCEPT ![t] =
                    Append(@, Ev("munmap", lv[t].mem, len, 0)) \o lg]
    /\ ret' = [ret EXCEPT ![t] = -1]
    /\ pc' = [pc EXCEPT ![t] = "ret"]
    /\ UNCHANGED <<s_stack_count, s, lv, heap, on_valgrind, vg_stacks, live,
                   old, pairStart>>

\* A variant whose bottom leaves the guard out.
filled_storage_short(mem, stacksize, guardsize, memsize, id) ==
    [bottom |-> ToSizeT(mem + stacksize),
     stacksize |-> stacksize,
     guardsize |-> guardsize,
     valgrind_stack_id |-> id]

\* What the fields of *s are set to.
filled_storage(mem, stacksize, guardsize, memsize, id) ==
    [bottom |-> ToSizeT(mem + memsize),
     stacksize |-> stacksize,
     guardsize |-> guardsize,
     valgrind_stack_id |-> id]

\* The success of both paths: s_stack_count.fetch_add(1, relaxed), the
\* fields of *s, the valgrind registration, return 0.
allocate_finish(t) ==
    /\ pc[t] = "a_finish"
    /\ UNCHANGED <<ctxvars, logged_once>>
    /\ s_stack_count' = fetch_add(s_stack_count, 1)
    /\ LET id == IF on_valgrind THEN FreshStackId ELSE 0
           new == filled_storage(lv[t].mem, lv[t].stacksize,
                                 lv[t].guardsize, lv[t].memsize, id)
           add == Ev("fetch_add", 1, 0, s_stack_count)
           reg == Ev("stack_register", new.bottom,
                     ToSizeT(new.bottom - lv[t].stacksize), id)
       IN  /\ s' = [s EXCEPT ![t] = new]
           /\ vg_stacks' =
                 IF on_valgrind
                 THEN vg_stacks \cup
                          {[id |-> id, start |-> reg.a, end |-> reg.b]}
                 ELSE vg_stacks
           /\ trace' = [trace EXCEPT ![t] =
                  IF on_valgrind THEN @ \o <<add, reg>> ELSE Append(@, add)]
    /\ ret' = [ret EXCEPT ![t] = 0]
    /\ live' = [live EXCEPT ![t] = TRUE]
    /\ pc' = [pc EXCEPT ![t] = "ret"]
    /\ UNCHANGED <<lv, heap, maps, noaccess, on_valgrind, old, pairStart>>

\* ---------------------------------------------- deallocate_stack_storage
\* A variant with a strict comparison.
degenerate_strict(st) ==
    st.bottom < ToSizeT(memsize_of(st.stacksize, st.guardsize))

\* A variant of the base that leaves the guard out.
base_of_usable(st) == ToSizeT(st.bottom - st.stacksize)

\* bottom <= memsize, both as uintptr_t.
degenerate(st) ==
    st.bottom <= ToSizeT(memsize_of(st.stacksize, st.guardsize))

\* The base deallocate computes: (char*)s->bottom - memsize.
base_of(st) ==
    ToSizeT(st.bottom - memsize_of(st.stacksize, st.guardsize))

\* The entry of deallocate_stack_storage(s): the valgrind deregistration and
\* the check of the handle.
deallocate_stack_storage(t) ==
    /\ pc[t] = "idle"
    /\ UNCHANGED <<ctxvars, logged_once>>
    /\ live[t] \/ s[t] \in DegenerateHandles
    /\ IF on_valgrind
       THEN /\ vg_stacks' =
                 {r \in vg_stacks : r.id # s[t].valgrind_stack_id}
            /\ trace' = [trace EXCEPT ![t] =
                 <<Ev("stack_deregister", s[t].valgrind_stack_id, 0, 0)>>]
       ELSE /\ vg_stacks' = vg_stacks
            /\ trace' = [trace EXCEPT ![t] = <<>>]
    /\ lv' = [lv EXCEPT ![t] =
           [NoLocals EXCEPT
              !.fn = "deallocate",
              !.memsize = memsize_of(s[t].stacksize, s[t].guardsize)]]
    /\ pc' = [pc EXCEPT ![t] = IF degenerate(s[t]) THEN "ret" ELSE "d_count"]
    /\ ret' = [ret EXCEPT ![t] = 0]
    /\ live' = [live EXCEPT ![t] = FALSE]
    /\ UNCHANGED <<s_stack_count, s, heap, maps, noaccess, on_valgrind>>

\* s_stack_count.fetch_sub(1, relaxed).
deallocate_count(t) ==
    /\ pc[t] = "d_count"
    /\ UNCHANGED <<ctxvars, logged_once>>
    /\ s_stack_count' = fetch_sub(s_stack_count, 1)
    /\ trace' = [trace EXCEPT ![t] =
           Append(@, Ev("fetch_sub", 1, 0, s_stack_count))]
    /\ pc' = [pc EXCEPT ![t] = "d_release"]
    /\ UNCHANGED <<s, lv, ret, heap, maps, noaccess, on_valgrind, vg_stacks,
                   live, old, pairStart>>

\* A variant that unmaps the usable bytes only.
release_call_partial(st) ==
    IF st.guardsize <= 0
    THEN Ev("free", base_of(st), 0, 0)
    ELSE Ev("munmap", base_of(st), ToSizeT(st.stacksize), 0)

\* The call that releases the memory: free or munmap.
release_call(st) ==
    IF st.guardsize <= 0
    THEN Ev("free", base_of(st), 0, 0)
    ELSE Ev("munmap", base_of(st),
            ToSizeT(memsize_of(st.stacksize, st.guardsize)), 0)

\* A variant that clears the handle once the memory is released.
handle_cleared(st) ==
    [st EXCEPT !.bottom = 0, !.stacksize = 0, !.guardsize = 0]

\* *s when deallocate returns: the function reads s->bottom, s->stacksize,
\* s->guardsize and s->valgrind_stack_id and assigns none of them.
handle_after(st) == st

\* free((char*)s->bottom - memsize) or munmap((char*)s->bottom - memsize,
\* memsize), return.
deallocate_release(t) ==
    /\ pc[t] = "d_release"
    /\ UNCHANGED <<ctxvars, logged_once>>
    /\ LET c == release_call(s[t])
       IN  /\ trace' = [trace EXCEPT ![t] = Append(@, c)]
           /\ IF c.op = "free"
              THEN /\ heap' = FreeHeap(c.a)
                   /\ UNCHANGED <<maps, noaccess>>
              ELSE /\ maps' = MunmapMaps(c.a, c.b)
                   /\ noaccess' = MunmapNoaccess(c.a, c.b)
                   /\ heap' = heap
    /\ s' = [s EXCEPT ![t] = handle_after(s[t])]
    /\ pc' = [pc EXCEPT ![t] = "ret"]
    /\ UNCHANGED <<s_stack_count, lv, ret, on_valgrind, vg_stacks, live,
                   old, pairStart>>

\* The caller goes on after the call has returned.
CallerContinue(t) ==
    /\ pc[t] = "ret"
    /\ UNCHANGED <<ctxvars, logged_once>>
    /\ pc' = [pc EXCEPT ![t] = "idle"]
    /\ lv' = [lv EXCEPT ![t] = NoLocals]
    /\ old' = [old EXCEPT ![t] = NoSnap]
    /\ trace' = [trace EXCEPT ![t] = <<>>]
    /\ UNCHANGED <<s_stack_count, s, ret, heap, maps, noaccess, on_valgrind,
                   vg_stacks, live, pairStart>>

\* ------------------------------------------------- context.cpp: the CPU
\* Context 0 is the thread's own; 1 .. NCtx are made by make_fcontext.
Ctxs == 0 .. NCtx
Made == 1 .. NCtx

\* A 64-bit word holds two ints; the x87 control word is half an int.
HALF == 2^IntBits
CWBASE == 2^(IntBits \div 2)

\* Code addresses: the trampoline, _exit, each context's entry function and
\* the instructions after its calls of jump_fcontext and make_fcontext.
CodeBase == 2^(PtrBits - 2)
FINISH == CodeBase + 1
EXIT == CodeBase + 2
ENTRY(c) == CodeBase + 8 * (c + 1)
RET_JUMP(c) == CodeBase + 8 * (c + 1) + 1
RET_MAKE(c) == CodeBase + 8 * (c + 1) + 2
CodeOf(c) == {ENTRY(c), RET_JUMP(c), RET_MAKE(c)}

\* Data addresses: the from_slot of each context, and the stacks.
SlotAddr(c) == 8 * (c + 1)
StackLo(c) == (c + 1) * 2^IntBits
StackHi(c) == StackLo(c) + 8 * StackWords
Words ==
    {SlotAddr(c) : c \in Ctxs} \cup
    {a \in StackLo(0) .. StackHi(NCtx) :
        a % 8 = 0 /\ \E c \in Ctxs : StackLo(c) <= a /\ a < StackHi(c)}
\* The stack_top values handed to make_fcontext: aligned to 16 or not.
StackTops(c) == {StackHi(c), StackHi(c) - 1}
\* The frame bthread_make_fcontext reserves: leaq -0x48(%rax), %rax.
MAKE_FRAME == 72
\* The stack_size values handed to make_fcontext: the whole stack, the
\* frame and what the alignment can take, and one byte less.
StackSizes == {8 * StackWords, MAKE_FRAME + 15, MAKE_FRAME + 14}
\* Where the code of a context stands when it calls: at its frame, or one
\* nested frame below.
FrameDepths == {0, 16}

\* What the code leaves in the callee-saved registers and in the FPU.
CalleeSaved == <<"rbp", "rbx", "r15", "r14", "r13", "r12">>
Patterns == {1, 2}
PatternValue(p, r) ==
    10 * p + (CHOOSE i \in 1 .. Len(CalleeSaved) : CalleeSaved[i] = r)
Vals == {1, 2}
Regs == {"rsp", "rbp", "rbx", "r12", "r13", "r14", "r15", "rdi", "rsi",
         "rdx", "rcx", "rax", "r8", "rip", "mxcsr", "fpucw"}

\* ----- instructions
SetReg(mc, r, v) == [mc EXCEPT !.reg[r] = v]
SetMem(mc, a, v) == [mc EXCEPT !.mem[a] = v]
\* pushq %r
Pushq(mc, r) ==
    LET sp == mc.reg["rsp"] - 8
    IN  SetMem(SetReg(mc, "rsp", sp), sp, mc.reg[r])
\* popq %r
Popq(mc, r) ==
    LET sp == mc.reg["rsp"]
    IN  SetReg(SetReg(mc, r, mc.mem[sp]), "rsp", sp + 8)
\* leaq d(%b), %r
Leaq(mc, d, b, r) == SetReg(mc, r, mc.reg[b] + d)
\* movq %a, %b
Movq(mc, a, b) == SetReg(mc, b, mc.reg[a])
\* movq %a, d(%b)
MovqStore(mc, a, d, b) == SetMem(mc, mc.reg[b] + d, mc.reg[a])
\* andq $imm, %r
Andq(mc, imm, r) == SetReg(mc, r, PtrAnd(mc.reg[r], imm))
\* stmxcsr (%b): the low four bytes of the word at (%b)
Stmxcsr(mc, b) ==
    LET a == mc.reg[b]
    IN  SetMem(mc, a, (mc.mem[a] \div HALF) * HALF + mc.reg["mxcsr"])
\* fnstcw 0x4(%b): bytes 4 and 5 of the word at (%b)
Fnstcw(mc, b) ==
    LET a == mc.reg[b]
        w == mc.mem[a]
        hi == w \div HALF
    IN  SetMem(mc, a, ((hi \div CWBASE) * CWBASE + mc.reg["fpucw"]) * HALF
                      + (w % HALF))
\* ldmxcsr (%b)
Ldmxcsr(mc, b) == SetReg(mc, "mxcsr", mc.mem[mc.reg[b]] % HALF)
\* fldcw 0x4(%b)
Fldcw(mc, b) ==
    SetReg(mc, "fpucw", (mc.mem[mc.reg[b]] \div HALF) % CWBASE)
\* call: the return address is pushed
Call(mc, retaddr) ==
    LET sp == mc.reg["rsp"] - 8
    IN  SetMem(SetReg(mc, "rsp", sp), sp, retaddr)
\* ret
Ret(mc) == Popq(mc, "rip")
\* jmp *%r
JmpReg(mc, r) == SetReg(mc, "rip", mc.reg[r])

\* A variant without the two moves of vp.
jump_fcontext_no_transfer(m0) ==
    LET m1 == Pushq(m0, "rbp")
        m2 == Pushq(m1, "rbx")
        m3 == Pushq(m2, "r15")
        m4 == Pushq(m3, "r14")
        m5 == Pushq(m4, "r13")
        m6 == Pushq(m5, "r12")
        m7 == Leaq(m6, -8, "rsp", "rsp")
        m8 == IF m7.reg["rcx"] = 0 THEN m7
              ELSE Fnstcw(Stmxcsr(m7, "rsp"), "rsp")
        m9 == MovqStore(m8, "rsp", 0, "rdi")
        m10 == Movq(m9, "rsi", "rsp")
        m11 == IF m10.reg["rcx"] = 0 THEN m10
               ELSE Fldcw(Ldmxcsr(m10, "rsp"), "rsp")
        m12 == Leaq(m11, 8, "rsp", "rsp")
        m13 == Popq(m12, "r12")
        m14 == Popq(m13, "r13")
        m15 == Popq(m14, "r14")
        m16 == Popq(m15, "r15")
        m17 == Popq(m16, "rbx")
        m18 == Popq(m17, "rbp")
        m19 == Popq(m18, "r8")
    IN  JmpReg(m19, "r8")

\* A variant without the store of %rsp to (%rdi).
jump_fcontext_no_record(m0) ==
    LET m1 == Pushq(m0, "rbp")
        m2 == Pushq(m1, "rbx")
        m3 == Pushq(m2, "r15")
        m4 == Pushq(m3, "r14")
        m5 == Pushq(m4, "r13")
        m6 == Pushq(m5, "r12")
        m7 == Leaq(m6, -8, "rsp", "rsp")
        m8 == IF m7.reg["rcx"] = 0 THEN m7
              ELSE Fnstcw(Stmxcsr(m7, "rsp"), "rsp")
        m9 == m8
        m10 == Movq(m9, "rsi", "rsp")
        m11 == IF m10.reg["rcx"] = 0 THEN m10
               ELSE Fldcw(Ldmxcsr(m10, "rsp"), "rsp")
        m12 == Leaq(m11, 8, "rsp", "rsp")
        m13 == Popq(m12, "r12")
        m14 == Popq(m13, "r13")
        m15 == Popq(m14, "r14")
        m16 == Popq(m15, "r15")
        m17 == Popq(m16, "rbx")
        m18 == Popq(m17, "rbp")
        m19 == Popq(m18, "r8")
        m20 == Movq(m19, "rdx", "rax")
        m21 == Movq(m20, "rdx", "rdi")
    IN  JmpReg(m21, "r8")

\* A variant without the load of %rsp from %rsi.
jump_fcontext_same_stack(m0) ==
    LET m1 == Pushq(m0, "rbp")
        m2 == Pushq(m1, "rbx")
        m3 == Pushq(m2, "r15")
        m4 == Pushq(m3, "r14")
        m5 == Pushq(m4, "r13")
        m6 == Pushq(m5, "r12")
        m7 == Leaq(m6, -8, "rsp", "rsp")
        m8 == IF m7.reg["rcx"] = 0 THEN m7
              ELSE Fnstcw(Stmxcsr(m7, "rsp"), "rsp")
        m9 == MovqStore(m8, "rsp", 0, "rdi")
        m10 == m9
        m11 == IF m10.reg["rcx"] = 0 THEN m10
               ELSE Fldcw(Ldmxcsr(m10, "rsp"), "rsp")
        m12 == Leaq(m11, 8, "rsp", "rsp")
        m13 == Popq(m12, "r12")
        m14 == Popq(m13, "r13")
        m15 == Popq(m14, "r14")
        m16 == Popq(m15, "r15")
        m17 == Popq(m16, "rbx")
        m18 == Popq(m17, "rbp")
        m19 == Popq(m18, "r8")
        m20 == Movq(m19, "rdx", "rax")
        m21 == Movq(m20, "rdx", "rdi")
    IN  JmpReg(m21, "r8")

\* A variant that stores %rsp to (%rdi) before the pushes.
jump_fcontext_early_record(m0) ==
    LET mr == MovqStore(m0, "rsp", 0, "rdi")
        m1 == Pushq(mr, "rbp")
        m2 == Pushq(m1, "rbx")
        m3 == Pushq(m2, "r15")
        m4 == Pushq(m3, "r14")
        m5 == Pushq(m4, "r13")
        m6 == Pushq(m5, "r12")
        m7 == Leaq(m6, -8, "rsp", "rsp")
        m8 == IF m7.reg["rcx"] = 0 THEN m7
              ELSE Fnstcw(Stmxcsr(m7, "rsp"), "rsp")
        m9 == m8
        m10 == Movq(m9, "rsi", "rsp")
        m11 == IF m10.reg["rcx"] = 0 THEN m10
               ELSE Fldcw(Ldmxcsr(m10, "rsp"), "rsp")
        m12 == Leaq(m11, 8, "rsp", "rsp")
        m13 == Popq(m12, "r12")
        m14 == Popq(m13, "r13")
        m15 == Popq(m14, "r14")
        m16 == Popq(m15, "r15")
        m17 == Popq(m16, "rbx")
        m18 == Popq(m17, "rbp")
        m19 == Popq(m18, "r8")
        m20 == Movq(m19, "rdx", "rax")
        m21 == Movq(m20, "rdx", "rdi")
    IN  JmpReg(m21, "r8")

\* A variant that pops %r13 before %r12.
jump_fcontext_swapped_pops(m0) ==
    LET m1 == Pushq(m0, "rbp")
        m2 == Pushq(m1, "rbx")
        m3 == Pushq(m2, "r15")
        m4 == Pushq(m3, "r14")
        m5 == Pushq(m4, "r13")
        m6 == Pushq(m5, "r12")
        m7 == Leaq(m6, -8, "rsp", "rsp")
        m8 == IF m7.reg["rcx"] = 0 THEN m7
              ELSE Fnstcw(Stmxcsr(m7, "rsp"), "rsp")
        m9 == MovqStore(m8, "rsp", 0, "rdi")
        m10 == Movq(m9, "rsi", "rsp")
        m11 == IF m10.reg["rcx"] = 0 THEN m10
               ELSE Fldcw(Ldmxcsr(m10, "rsp"), "rsp")
        m12 == Leaq(m11, 8, "rsp", "rsp")
        m13 == Popq(m12, "r13")
        m14 == Popq(m13, "r12")
        m15 == Popq(m14, "r14")
        m16 == Popq(m15, "r15")
        m17 == Popq(m16, "rbx")
        m18 == Popq(m17, "rbp")
        m19 == Popq(m18, "r8")
        m20 == Movq(m19, "rdx", "rax")
        m21 == Movq(m20, "rdx", "rdi")
    IN  JmpReg(m21, "r8")

\* A variant without the two tests of preserve_fpu.
jump_fcontext_always_fpu(m0) ==
    LET m1 == Pushq(m0, "rbp")
        m2 == Pushq(m1, "rbx")
        m3 == Pushq(m2, "r15")
        m4 == Pushq(m3, "r14")
        m5 == Pushq(m4, "r13")
        m6 == Pushq(m5, "r12")
        m7 == Leaq(m6, -8, "rsp", "rsp")
        m8 == Fnstcw(Stmxcsr(m7, "rsp"), "rsp")
        m9 == MovqStore(m8, "rsp", 0, "rdi")
        m10 == Movq(m9, "rsi", "rsp")
        m11 == Fldcw(Ldmxcsr(m10, "rsp"), "rsp")
        m12 == Leaq(m11, 8, "rsp", "rsp")
        m13 == Popq(m12, "r12")
        m14 == Popq(m13, "r13")
        m15 == Popq(m14, "r14")
        m16 == Popq(m15, "r15")
        m17 == Popq(m16, "rbx")
        m18 == Popq(m17, "rbp")
        m19 == Popq(m18, "r8")
        m20 == Movq(m19, "rdx", "rax")
        m21 == Movq(m20, "rdx", "rdi")
    IN  JmpReg(m21, "r8")

\* A variant that loads the FPU control state before it switches the
\* stack.
jump_fcontext_load_first(m0) ==
    LET m1 == Pushq(m0, "rbp")
        m2 == Pushq(m1, "rbx")
        m3 == Pushq(m2, "r15")
        m4 == Pushq(m3, "r14")
        m5 == Pushq(m4, "r13")
        m6 == Pushq(m5, "r12")
        m7 == Leaq(m6, -8, "rsp", "rsp")
        m8 == IF m7.reg["rcx"] = 0 THEN m7
              ELSE Fnstcw(Stmxcsr(m7, "rsp"), "rsp")
        m9 == MovqStore(m8, "rsp", 0, "rdi")
        m10 == IF m9.reg["rcx"] = 0 THEN m9
               ELSE Fldcw(Ldmxcsr(m9, "rsp"), "rsp")
        m11 == Movq(m10, "rsi", "rsp")
        m12 == Leaq(m11, 8, "rsp", "rsp")
        m13 == Popq(m12, "r12")
        m14 == Popq(m13, "r13")
        m15 == Popq(m14, "r14")
        m16 == Popq(m15, "r15")
        m17 == Popq(m16, "rbx")
        m18 == Popq(m17, "rbp")
        m19 == Popq(m18, "r8")
        m20 == Movq(m19, "rdx", "rax")
        m21 == Movq(m20, "rdx", "rdi")
    IN  JmpReg(m21, "r8")

\* bthread_jump_fcontext(ofc = rdi, nfc = rsi, vp = rdx, preserve_fpu = rcx)
bthread_jump_fcontext(m0) ==
    LET m1 == Pushq(m0, "rbp")
        m2 == Pushq(m1, "rbx")
        m3 == Pushq(m2, "r15")
        m4 == Pushq(m3, "r14")
        m5 == Pushq(m4, "r13")
        m6 == Pushq(m5, "r12")
        m7 == Leaq(m6, -8, "rsp", "rsp")
        m8 == IF m7.reg["rcx"] = 0 THEN m7
              ELSE Fnstcw(Stmxcsr(m7, "rsp"), "rsp")
        m9 == MovqStore(m8, "rsp", 0, "rdi")
        m10 == Movq(m9, "rsi", "rsp")
        m11 == IF m10.reg["rcx"] = 0 THEN m10
               ELSE Fldcw(Ldmxcsr(m10, "rsp"), "rsp")
        m12 == Leaq(m11, 8, "rsp", "rsp")
        m13 == Popq(m12, "r12")
        m14 == Popq(m13, "r13")
        m15 == Popq(m14, "r14")
        m16 == Popq(m15, "r15")
        m17 == Popq(m16, "rbx")
        m18 == Popq(m17, "rbp")
        m19 == Popq(m18, "r8")
        m20 == Movq(m19, "rdx", "rax")
        m21 == Movq(m20, "rdx", "rdi")
    IN  JmpReg(m21, "r8")

\* A variant that aligns the stack top to 8 bytes only.
make_fcontext_align8(m0) ==
    LET m1 == Movq(m0, "rdi", "rax")
        m2 == Andq(m1, -8, "rax")
        m3 == Leaq(m2, -72, "rax", "rax")
        m4 == MovqStore(m3, "rdx", 56, "rax")
        m5 == Fnstcw(Stmxcsr(m4, "rax"), "rax")
        m6 == SetReg(m5, "rcx", FINISH)
        m7 == MovqStore(m6, "rcx", 64, "rax")
    IN  Ret(m7)

\* A variant that stores fn and the address of finish in each other's
\* slot.
make_fcontext_swapped_slots(m0) ==
    LET m1 == Movq(m0, "rdi", "rax")
        m2 == Andq(m1, -16, "rax")
        m3 == Leaq(m2, -72, "rax", "rax")
        m4 == MovqStore(m3, "rdx", 64, "rax")
        m5 == Fnstcw(Stmxcsr(m4, "rax"), "rax")
        m6 == SetReg(m5, "rcx", FINISH)
        m7 == MovqStore(m6, "rcx", 56, "rax")
    IN  Ret(m7)

\* A variant that does not store the address of finish.
make_fcontext_no_finish(m0) ==
    LET m1 == Movq(m0, "rdi", "rax")
        m2 == Andq(m1, -16, "rax")
        m3 == Leaq(m2, -72, "rax", "rax")
        m4 == MovqStore(m3, "rdx", 56, "rax")
        m5 == Fnstcw(Stmxcsr(m4, "rax"), "rax")
    IN  Ret(m5)

\* bthread_make_fcontext(sp = rdi, size = rsi, fn = rdx)
bthread_make_fcontext(m0) ==
    LET m1 == Movq(m0, "rdi", "rax")
        m2 == Andq(m1, -16, "rax")
        m3 == Leaq(m2, -72, "rax", "rax")
        m4 == MovqStore(m3, "rdx", 56, "rax")
        m5 == Fnstcw(Stmxcsr(m4, "rax"), "rax")
        m6 == SetReg(m5, "rcx", FINISH)
        m7 == MovqStore(m6, "rcx", 64, "rax")
    IN  Ret(m7)

\* finish: xorq %rdi, %rdi; call _exit@PLT
finish(mc) == SetReg(SetReg(mc, "rdi", 0), "rip", EXIT)

\* ----- the code that runs in the contexts
\* The context whose code the CPU executes.
Running(c) ==
    platform = "linux_x86_64" /\ ~exited /\ cpu.reg["rip"] \in CodeOf(c)
\* The stack pointer of c's code at its own frame.
FrameSp(c) == IF c = 0 THEN StackHi(0) - 16 ELSE entry_sp[c] - 8
\* What the calling code can observe around a call: its stack pointer, the
\* registers the ABI has the callee preserve, the FPU control state.
Preserved == {"rbp", "rbx", "r12", "r13", "r14", "r15"}
SiteOf(mc, preserve_fpu) ==
    [sp |-> mc.reg["rsp"],
     reg |-> [r \in Preserved \cup {"mxcsr", "fpucw"} |-> mc.reg[r]],
     fpu |-> preserve_fpu,
     \* the word that becomes the FPU slot, as it is before the call
     fpmem |-> <<mc.mem[mc.reg["rsp"] - 64]>>]
NoSite == [sp |-> 0,
           reg |-> [r \in Preserved \cup {"mxcsr", "fpucw"} |-> 0],
           fpu |-> 0,
           fpmem |-> <<>>]
\* What a call of make_fcontext captures for the context it makes: the
\* registers at the call.
MadeSiteOf(mc) ==
    [NoSite EXCEPT
        !.reg = [r \in Preserved \cup {"mxcsr", "fpucw"} |-> mc.reg[r]]]
NoJump == [valid |-> FALSE, from |-> 0, to |-> 0, fresh |-> FALSE,
           sent |-> 0, landed |-> 0, got |-> 0]

\* The code of context c makes context n on stack_top top.
MakeContext(c, n, top) ==
    /\ Running(c)
    /\ UNCHANGED stackvars
    /\ status[n] = "none"
    /\ \E d \in FrameDepths, size \in StackSizes :
         LET args == [cpu EXCEPT !.reg["rsp"] = FrameSp(c) - d,
                               !.reg["rdi"] = top,
                               !.reg["rsi"] = size,
                               !.reg["rdx"] = ENTRY(n)]
             r == bthread_make_fcontext(Call(args, RET_MAKE(c)))
         IN  /\ cpu' = SetMem(r, SlotAddr(n), r.reg["rax"])
             /\ site' = [site EXCEPT ![n] = MadeSiteOf(args)]
    /\ status' = [status EXCEPT ![n] = "fresh"]
    /\ UNCHANGED <<started, arg, v0, entry_sp, last, njumps, returned, exited,
                   platform>>

\* What the code of a context has left in the registers when it calls:
\* pattern p in the callee-saved registers and in the FPU control state.
Computed(mc, p) ==
    [mc EXCEPT !.reg =
        [r \in Regs |->
            IF \E i \in DOMAIN CalleeSaved : CalleeSaved[i] = r
            THEN PatternValue(p, r)
            ELSE IF r \in {"mxcsr", "fpucw"} THEN p ELSE mc.reg[r]]]

\* The code of context c, having computed, calls
\* bthread_jump_fcontext(&slot[c], slot[to], v, preserve_fpu).
JumpContext(c, to, v, preserve_fpu, p) ==
    /\ Running(c)
    /\ UNCHANGED stackvars
    /\ to # c
    /\ njumps < MaxJumps
    /\ status[to] \in {"fresh", "suspended"}
    /\ \E d \in FrameDepths :
         LET args == [Computed(cpu, p) EXCEPT
                               !.reg["rsp"] = FrameSp(c) - d,
                               !.reg["rdi"] = SlotAddr(c),
                               !.reg["rsi"] = cpu.mem[SlotAddr(to)],
                               !.reg["rdx"] = v,
                               !.reg["rcx"] = preserve_fpu]
             r == bthread_jump_fcontext(Call(args, RET_JUMP(c)))
             first == r.reg["rip"] \in {ENTRY(n) : n \in Made}
             n == CHOOSE x \in Made : r.reg["rip"] = ENTRY(x)
         IN  /\ cpu' = r
             /\ started' = IF first
                           THEN [started EXCEPT ![n] = IF @ < 2 THEN @ + 1
                                                       ELSE @]
                           ELSE started
             /\ arg' = IF first THEN [arg EXCEPT ![n] = r.reg["rdi"]]
                       ELSE arg
             /\ entry_sp' = IF first
                            THEN [entry_sp EXCEPT ![n] = r.reg["rsp"]]
                            ELSE entry_sp
             /\ site' = [site EXCEPT ![c] = SiteOf(args, preserve_fpu)]
             /\ last' = [valid |-> TRUE, from |-> c, to |-> to,
                         fresh |-> status[to] = "fresh", sent |-> v,
                         landed |-> r.reg["rip"],
                         got |-> IF first THEN r.reg["rdi"]
                                 ELSE r.reg["rax"]]
    /\ v0' = IF status[to] = "fresh" THEN [v0 EXCEPT ![to] = v] ELSE v0
    /\ status' = [status EXCEPT ![c] = "suspended", ![to] = "running"]
    /\ njumps' = njumps + 1
    /\ UNCHANGED <<returned, exited, platform>>

\* The entry function of context c returns: ret at the stack pointer it was
\* entered with.
EntryReturn(c) ==
    /\ Running(c)
    /\ UNCHANGED stackvars
    /\ c \in Made
    /\ cpu' = Ret(SetReg(cpu, "rsp", entry_sp[c]))
    /\ returned' = TRUE
    /\ status' = [status EXCEPT ![c] = "returned"]
    /\ UNCHANGED <<started, arg, v0, entry_sp, last, njumps, exited, site,
                   platform>>

\* The trampoline.
Finish ==
    /\ platform = "linux_x86_64"
    /\ ~exited
    /\ UNCHANGED stackvars
    /\ cpu.reg["rip"] = FINISH
    /\ cpu' = finish(cpu)
    /\ exited' = TRUE
    /\ UNCHANGED <<status, started, arg, v0, entry_sp, last, njumps, returned,
                   site, platform>>

\* ------------------------------------------- context.cpp: linux_arm64
\* The registers the arm64 routines use; d8 - d15 are the FP registers the
\* ABI has a callee preserve.
ArmGP == <<"x19", "x20", "x21", "x22", "x23", "x24", "x25", "x26", "x27",
           "x28", "x29", "x30">>
ArmFP == <<"d8", "d9", "d10", "d11", "d12", "d13", "d14", "d15">>
ArmRegs ==
    {"x0", "x1", "x2", "x3", "x4", "sp", "pc"} \cup
    {ArmGP[i] : i \in DOMAIN ArmGP} \cup {ArmFP[i] : i \in DOMAIN ArmFP}
\* The size of the context data: 0xb0.
ARM_FRAME == 176

\* stp a, b, [sp, #off]
Stp(mc, a, b, off) ==
    LET sp == mc.reg["sp"]
    IN  SetMem(SetMem(mc, sp + off, mc.reg[a]), sp + off + 8, mc.reg[b])
\* ldp a, b, [sp, #off]
Ldp(mc, a, b, off) ==
    LET sp == mc.reg["sp"]
    IN  SetReg(SetReg(mc, a, mc.mem[sp + off]), b, mc.mem[sp + off + 8])
\* str a, [b, #off]
Str(mc, a, b, off) == SetMem(mc, mc.reg[b] + off, mc.reg[a])
\* ldr a, [b, #off]
Ldr(mc, a, b, off) == SetReg(mc, a, mc.mem[mc.reg[b] + off])
\* add a, a, #imm (sub with a negative imm)
AddImm(mc, a, imm) == SetReg(mc, a, mc.reg[a] + imm)
\* ret a
RetReg(mc, a) == SetReg(mc, "pc", mc.reg[a])

\* bthread_jump_fcontext(ofc = x0, nfc = x1, vp = x2, preserve_fpu = w3):
\* the test of w3 is commented out.
arm64_jump_fcontext(m0) ==
    LET m1 == AddImm(m0, "sp", -ARM_FRAME)
        m2 == Stp(Stp(Stp(Stp(m1, "d8", "d9", 0), "d10", "d11", 16),
                      "d12", "d13", 32), "d14", "d15", 48)
        m3 == Stp(Stp(Stp(m2, "x19", "x20", 64), "x21", "x22", 80),
                  "x23", "x24", 96)
        m4 == Stp(Stp(Stp(m3, "x25", "x26", 112), "x27", "x28", 128),
                  "x29", "x30", 144)
        m5 == Str(m4, "x30", "sp", 160)
        m6 == Str(Movq(m5, "sp", "x4"), "x4", "x0", 0)
        m7 == Movq(m6, "x1", "sp")
        m8 == Ldp(Ldp(Ldp(Ldp(m7, "d8", "d9", 0), "d10", "d11", 16),
                      "d12", "d13", 32), "d14", "d15", 48)
        m9 == Ldp(Ldp(Ldp(m8, "x19", "x20", 64), "x21", "x22", 80),
                  "x23", "x24", 96)
        m10 == Ldp(Ldp(Ldp(m9, "x25", "x26", 112), "x27", "x28", 128),
                   "x29", "x30", 144)
        m11 == Movq(m10, "x2", "x0")
        m12 == Ldr(m11, "x4", "sp", 160)
        m13 == AddImm(m12, "sp", ARM_FRAME)
    IN  RetReg(m13, "x4")

\* bthread_make_fcontext(sp = x0, size = x1, fn = x2)
arm64_make_fcontext(m0) ==
    LET m1 == Andq(m0, -16, "x0")
        m2 == AddImm(m1, "x0", -ARM_FRAME)
        m3 == Str(m2, "x2", "x0", 160)
        m4 == SetReg(m3, "x1", FINISH)
        m5 == Str(m4, "x1", "x0", 152)
    IN  RetReg(m5, "x30")

\* The context whose code the CPU executes.
ArmRunning(c) ==
    platform = "linux_arm64" /\ ~exited /\ cpu.reg["pc"] \in CodeOf(c)
\* The stack pointer of c's code.
ArmFrameSp(c) == IF c = 0 THEN StackHi(0) - 16 ELSE entry_sp[c]
\* What the calling code can observe around a call.
ArmSiteOf(mc, preserve_fpu) ==
    [sp |-> mc.reg["sp"],
     reg |-> [r \in ArmRegs \ {"x0", "x1", "x2", "x3", "x4", "sp", "pc"}
                 |-> mc.reg[r]],
     fpu |-> preserve_fpu,
     \* the words that become the save area of d8 - d15
     fpmem |-> [i \in DOMAIN ArmFP |->
                   mc.mem[mc.reg["sp"] - ARM_FRAME + 8 * (i - 1)]]]
\* What the code of a context has left in the registers when it calls.
ArmComputed(mc, p) ==
    [mc EXCEPT !.reg =
        [r \in ArmRegs |->
            IF \E i \in DOMAIN ArmGP : ArmGP[i] = r
            THEN 100 * p + (CHOOSE i \in DOMAIN ArmGP : ArmGP[i] = r)
            ELSE IF \E i \in DOMAIN ArmFP : ArmFP[i] = r
            THEN 200 * p + (CHOOSE i \in DOMAIN ArmFP : ArmFP[i] = r)
            ELSE mc.reg[r]]]

\* The code of context c makes context n on stack_top top.
ArmMakeContext(c, n, top) ==
    /\ ArmRunning(c)
    /\ UNCHANGED stackvars
    /\ status[n] = "none"
    /\ LET args == [cpu EXCEPT !.reg["sp"] = ArmFrameSp(c),
                              !.reg["x0"] = top,
                              !.reg["x1"] = 8 * StackWords,
                              !.reg["x2"] = ENTRY(n),
                              !.reg["x30"] = RET_MAKE(c)]
           r == arm64_make_fcontext(args)
       IN  cpu' = SetMem(r, SlotAddr(n), r.reg["x0"])
    /\ status' = [status EXCEPT ![n] = "fresh"]
    /\ UNCHANGED <<started, arg, v0, entry_sp, last, njumps, returned, exited,
                   site, platform>>

\* The code of context c, having computed, calls
\* bthread_jump_fcontext(&slot[c], slot[to], v, preserve_fpu).
ArmJumpContext(c, to, v, preserve_fpu, p) ==
    /\ ArmRunning(c)
    /\ UNCHANGED stackvars
    /\ to # c
    /\ njumps < MaxJumps
    /\ status[to] \in {"fresh", "suspended"}
    /\ LET args == [ArmComputed(cpu, p) EXCEPT
                              !.reg["sp"] = ArmFrameSp(c),
                              !.reg["x0"] = SlotAddr(c),
                              !.reg["x1"] = cpu.mem[SlotAddr(to)],
                              !.reg["x2"] = v,
                              !.reg["x3"] = preserve_fpu,
                              !.reg["x30"] = RET_JUMP(c)]
           r == arm64_jump_fcontext(args)
           first == r.reg["pc"] \in {ENTRY(n) : n \in Made}
           n == CHOOSE x \in Made : r.reg["pc"] = ENTRY(x)
       IN  /\ cpu' = r
           /\ started' = IF first
                         THEN [started EXCEPT ![n] = IF @ < 2 THEN @ + 1
                                                     ELSE @]
                         ELSE started
           /\ arg' = IF first THEN [arg EXCEPT ![n] = r.reg["x0"]] ELSE arg
           /\ entry_sp' = IF first
                          THEN [entry_sp EXCEPT ![n] = r.reg["sp"]]
                          ELSE entry_sp
           /\ site' = [site EXCEPT ![c] = ArmSiteOf(args, preserve_fpu)]
           /\ last' = [valid |-> TRUE, from |-> c, to |-> to,
                       fresh |-> status[to] = "fresh", sent |-> v,
                       landed |-> r.reg["pc"], got |-> r.reg["x0"]]
    /\ v0' = IF status[to] = "fresh" THEN [v0 EXCEPT ![to] = v] ELSE v0
    /\ status' = [status EXCEPT ![c] = "suspended", ![to] = "running"]
    /\ njumps' = njumps + 1
    /\ UNCHANGED <<returned, exited, platform>>

\* The thread starts in its own context, on its own stack.
ArmStart(g) ==
    /\ cpu = [reg |-> [r \in ArmRegs |->
                        CASE r = "sp" -> StackHi(0) - 16
                          [] r = "pc" -> ENTRY(0)
                          [] OTHER -> 0],
              mem |-> [a \in Words |-> g]]
    /\ status = [c \in Ctxs |-> IF c = 0 THEN "running" ELSE "none"]
    /\ started = [c \in Ctxs |-> 0]
    /\ arg = [c \in Ctxs |-> 0]
    /\ v0 = [c \in Ctxs |-> 0]
    /\ entry_sp = [c \in Ctxs |-> 0]
    /\ last = NoJump
    /\ njumps = 0
    /\ returned = FALSE
    /\ exited = FALSE
    /\ site = [c \in Ctxs |-> NoSite]
    /\ platform = "linux_arm64"

\* ------------------------------------------------------- specifications
\* The thread starts in its own context, on its own stack; the memory holds
\* whatever was there, g in every word.
CtxStart(g) ==
    /\ cpu = [reg |-> [r \in Regs |->
                        CASE r = "rsp" -> StackHi(0) - 16
                          [] r = "rip" -> ENTRY(0)
                          [] r \in {"mxcsr", "fpucw"} -> 1
                          [] OTHER -> 0],
              mem |-> [a \in Words |-> g]]
    /\ status = [c \in Ctxs |-> IF c = 0 THEN "running" ELSE "none"]
    /\ started = [c \in Ctxs |-> 0]
    /\ arg = [c \in Ctxs |-> 0]
    /\ v0 = [c \in Ctxs |-> 0]
    /\ entry_sp = [c \in Ctxs |-> 0]
    /\ last = NoJump
    /\ njumps = 0
    /\ returned = FALSE
    /\ exited = FALSE
    /\ site = [c \in Ctxs |-> NoSite]
    /\ platform = "linux_x86_64"

InitShared ==
    /\ s_stack_count = 0
    /\ pc = [t \in Threads |-> "idle"]
    /\ lv = [t \in Threads |-> NoLocals]
    /\ ret = [t \in Threads |-> 0]
    /\ heap = {}
    /\ maps = {}
    /\ noaccess = {}
    /\ vg_stacks = {}
    /\ live = [t \in Threads |-> FALSE]
    /\ old = [t \in Threads |-> NoSnap]
    /\ trace = [t \in Threads |-> <<>>]
    /\ pairStart = [t \in Threads |-> NoSnap]
    /\ logged_once = FALSE

\* The caller under test starts with a handle it has not allocated.
InitStack ==
    /\ InitShared
    /\ on_valgrind \in BOOLEAN
    /\ CtxStart(0)
    /\ \E h \in DegenerateHandles :
           s = [t \in Threads |-> IF t = 1 THEN h ELSE ZeroStorage]

InitStackMT ==
    /\ InitShared
    /\ on_valgrind \in BOOLEAN
    /\ CtxStart(0)
    /\ s = [t \in Threads |-> ZeroStorage]

\* One step of thread t inside a call.
InCall(t) ==
    \/ allocate_protect(t)
    \/ allocate_unmap(t)
    \/ allocate_finish(t)
    \/ deallocate_count(t)
    \/ deallocate_release(t)

\* The caller under test runs its calls alone; the state is recorded when a
\* call is entered.
NextStack ==
    \/ \E S \in StackSizesIn, G \in GuardSizesIn :
           /\ allocate_stack_storage(1, S, G)
           /\ old' = [old EXCEPT ![1] = Snap(1)]
           /\ pairStart' = [pairStart EXCEPT ![1] = Snap(1)]
    \/ /\ deallocate_stack_storage(1)
       /\ old' = [old EXCEPT ![1] = Snap(1)]
       /\ pairStart' = pairStart
    \/ InCall(1)
    \/ CallerContinue(1)

\* The calls of the threads interleave at every step.
NextStackMT ==
    \/ \E t \in Threads, S \in StackSizesBg, G \in GuardSizesBg :
           allocate_stack_storage(t, S, G) /\ UNCHANGED <<old, pairStart>>
    \/ \E t \in Threads :
           deallocate_stack_storage(t) /\ UNCHANGED <<old, pairStart>>
    \/ \E t \in Threads : InCall(t)
    \/ \E t \in Threads : CallerContinue(t)

InitCtx ==
    /\ InitShared
    /\ on_valgrind = FALSE
    /\ s = [t \in Threads |-> ZeroStorage]
    /\ \E g \in {0, HALF * CWBASE - 1} : CtxStart(g)

NextCtx ==
    \/ \E c \in Ctxs, n \in Made : \E top \in StackTops(n) :
           MakeContext(c, n, top)
    \/ \E c \in Ctxs, to \in Ctxs, v \in Vals, fpu \in {0, 1},
          p \in Patterns :
           JumpContext(c, to, v, fpu, p)
    \/ \E c \in Made : EntryReturn(c)
    \/ Finish

\* The same program built for linux x86_64 or for linux arm64.
InitPlatforms ==
    /\ InitShared
    /\ on_valgrind = FALSE
    /\ s = [t \in Threads |-> ZeroStorage]
    /\ \E g \in {0, HALF * CWBASE - 1} : CtxStart(g) \/ ArmStart(g)

NextPlatforms ==
    \/ \E c \in Ctxs, n \in Made : \E top \in StackTops(n) :
           MakeContext(c, n, top)
    \/ \E c \in Ctxs, to \in Ctxs, v \in Vals, fpu \in {0, 1},
          p \in Patterns :
           JumpContext(c, to, v, fpu, p)
    \/ \E c \in Made : EntryReturn(c)
    \/ Finish
    \/ \E c \in Ctxs, n \in Made : \E top \in StackTops(n) :
           ArmMakeContext(c, n, top)
    \/ \E c \in Ctxs, to \in Ctxs, v \in Vals, fpu \in {0, 1},
          p \in Patterns :
           ArmJumpContext(c, to, v, fpu, p)

SpecStack == InitStack /\ [][NextStack]_vars
SpecStackMT == InitStackMT /\ [][NextStackMT]_vars
SpecCtx == InitCtx /\ [][NextCtx]_vars
SpecPlatforms == InitPlatforms /\ [][NextPlatforms]_vars

\* ------------------------------------------------------------ the claims
AllocReturned(t, r) ==
    pc[t] = "ret" /\ lv[t].fn = "allocate" /\ ret[t] = r
DeallocReturned(t) ==
    pc[t] = "ret" /\ lv[t].fn = "deallocate"
\* The calls of thread t's call, by name.
Calls(t, op) == {i \in DOMAIN trace[t] : trace[t][i].op = op}
\* A handle whose bottom is not larger than stacksize + guardsize.
DegenerateHandle(st) == st.bottom <= st.stacksize + st.guardsize
\* The address malloc or mmap returned to thread t's allocate.
Obtained(t) == trace[t][1].r
PageOf(addr) == addr \div PAGESIZE

\* C1: a context made with entry function F is started exactly once, by the
\* first jump into it, with that jump's transfer value as F's argument; and
\* every jump delivers its own transfer value to the code it lands in: the
\* entry function on a first jump, else the instruction after the suspended
\* jump_fcontext call of the target, whose return value it is.
C1_TransferInOrder ==
    /\ \A c \in Made :
          /\ started[c] <= 1
          /\ (started[c] = 1) <=> (status[c] \notin {"none", "fresh"})
          /\ started[c] = 1 => arg[c] = v0[c]
    /\ last.valid =>
          /\ last.got = last.sent
          /\ last.landed =
                (IF last.fresh THEN ENTRY(last.to) ELSE RET_JUMP(last.to))
          /\ Running(last.to) \/ returned

C1_Witness ==
    /\ last.valid /\ ~last.fresh
    /\ last.to \in Made
    /\ njumps >= 3
    /\ started[last.to] = 1
    /\ last.sent # v0[last.to]
    /\ cpu.reg["rax"] = last.sent
    /\ cpu.reg["rip"] = RET_JUMP(last.to)

\* C2: once the entry function of a made context has returned, the CPU is
\* in the trampoline finish or in _exit, which it reaches from finish only;
\* the code of no context runs.
C2_ReturnExits ==
    returned =>
        /\ cpu.reg["rip"] \in {FINISH, EXIT}
        /\ (cpu.reg["rip"] = EXIT) <=> exited
        /\ exited => cpu.reg["rdi"] = 0
        /\ \A c \in Ctxs : ~Running(c)

C2_Witness ==
    /\ returned /\ exited
    /\ cpu.reg["rip"] = EXIT
    /\ njumps >= 2

\* C3: a deallocate that follows a successful allocate leaves the live-stack
\* counter at the value it had before the allocate, and releases the whole
\* region the allocate obtained: the heap, the mappings and the protections
\* are those from before the allocate, and no page of the region stays.
C3_DeallocateRestores ==
    \A t \in Threads :
        (DeallocReturned(t) /\ pairStart[t].valid
            /\ ~DegenerateHandle(s[t])) =>
            /\ s_stack_count = pairStart[t].count
            /\ heap = pairStart[t].heap
            /\ maps = pairStart[t].maps
            /\ noaccess = pairStart[t].noaccess
            /\ Pages(s[t].bottom - (s[t].stacksize + s[t].guardsize),
                     s[t].stacksize + s[t].guardsize)
                 \cap (MappedPages \cup HeapPages) = {}

C3_Witness ==
    \E t \in Threads :
        /\ DeallocReturned(t) /\ pairStart[t].valid
        /\ ~DegenerateHandle(s[t])
        /\ s[t].guardsize > 0
        /\ Calls(t, "munmap") # {}
        /\ s_stack_count = pairStart[t].count

\* C4: once every thread has completed its allocate / deallocate pairs (no
\* thread is inside a call, no storage is live), the live-stack counter has
\* its starting value, whatever the interleaving was.
C4_CounterBalanced ==
    (\A t \in Threads : pc[t] = "idle" /\ ~live[t]) => s_stack_count = 0

C4_Witness ==
    /\ \A t \in Threads :
          pc[t] = "idle" /\ ~live[t] /\ ~DegenerateHandle(s[t])
    /\ \E t, u \in Threads : s[t].guardsize > 0 /\ s[u].guardsize = 0
    /\ s_stack_count = 0

\* C5: a successful allocate asked for S >= 1 records a stacksize >= S, and
\* the total size stacksize + guardsize, as the mathematical sum and as the
\* int the code computes, is a multiple of the page size.
C5_SizeRounded ==
    \A t \in Threads :
        (AllocReturned(t, 0) /\ lv[t].stacksize_in >= 1) =>
            /\ s[t].stacksize >= lv[t].stacksize_in
            /\ (s[t].stacksize + s[t].guardsize) % PAGESIZE = 0
            /\ lv[t].memsize = s[t].stacksize + s[t].guardsize

C5_Witness ==
    \E t \in Threads :
        /\ AllocReturned(t, 0)
        /\ lv[t].stacksize_in = INT_MAX - PAGESIZE_M1
        /\ s[t].stacksize = lv[t].stacksize_in

\* C6: after a successful allocate with G > 0 the highest byte of the guard
\* region is in a no-access page and the lowest byte of the usable region
\* is in a mapped page that is not no-access.
C6_GuardBoundary ==
    \A t \in Threads :
        (AllocReturned(t, 0) /\ lv[t].guardsize_in > 0) =>
            /\ PageOf(s[t].bottom - s[t].stacksize - 1) \in noaccess
            /\ PageOf(s[t].bottom - s[t].stacksize) \in MappedPages
            /\ PageOf(s[t].bottom - s[t].stacksize) \notin noaccess

\* C7: a successful allocate records a stacksize that is a multiple of the
\* page size and at least two pages, a guardsize that is 0 exactly when the
\* requested guard size was <= 0 and otherwise a multiple of the page size
\* and at least a page, and bottom = base + stacksize + guardsize.
C7_StorageShape ==
    \A t \in Threads :
        AllocReturned(t, 0) =>
            /\ s[t].stacksize % PAGESIZE = 0
            /\ s[t].stacksize >= 2 * PAGESIZE
            /\ (s[t].guardsize = 0) <=> (lv[t].guardsize_in <= 0)
            /\ s[t].guardsize # 0 =>
                  (s[t].guardsize % PAGESIZE = 0 /\ s[t].guardsize >= PAGESIZE)
            /\ s[t].bottom = Obtained(t) + s[t].stacksize + s[t].guardsize
            /\ trace[t][1].a = s[t].stacksize + s[t].guardsize

C7_Witness ==
    \E t \in Threads :
        /\ AllocReturned(t, 0)
        /\ lv[t].guardsize_in = MIN_GUARDSIZE + 1
        /\ s[t].guardsize = 2 * PAGESIZE
        /\ s[t].bottom = Obtained(t) + s[t].stacksize + s[t].guardsize

\* C8: allocate is all or nothing.  Returning 0, it has written the four
\* fields, installed the guard protection if one was asked for, and
\* incremented the counter exactly once.  Failing (malloc NULL, mmap
\* MAP_FAILED, mprotect failing) it returns -1 and leaves the fields, the
\* counter, the heap, the mappings and the protections as they were.
C8_AllOrNothing ==
    \A t \in Threads :
        (pc[t] = "ret" /\ lv[t].fn = "allocate") =>
            /\ ret[t] \in {0, -1}
            /\ (ret[t] = -1) <=>
                  \E i \in DOMAIN trace[t] :
                      \/ trace[t][i].op = "malloc" /\ trace[t][i].r = NULL
                      \/ trace[t][i].op = "mmap"
                            /\ trace[t][i].r = MAP_FAILED
                      \/ trace[t][i].op = "mprotect" /\ trace[t][i].r # 0
            /\ ret[t] = 0 =>
                  /\ s[t].bottom = Obtained(t) + lv[t].memsize
                  /\ s[t].stacksize = lv[t].stacksize
                  /\ s[t].guardsize = lv[t].guardsize
                  /\ s[t].valgrind_stack_id =
                        (IF on_valgrind
                         THEN trace[t][Len(trace[t])].r ELSE 0)
                  /\ on_valgrind =>
                        \E r \in vg_stacks :
                            r.id = s[t].valgrind_stack_id
                  /\ lv[t].guardsize_in > 0 =>
                        PageOf(s[t].bottom - s[t].stacksize - 1) \in noaccess
                  /\ Cardinality(Calls(t, "fetch_add")) = 1
                  /\ s_stack_count = old[t].count + 1
            /\ ret[t] = -1 =>
                  /\ s[t] = old[t].s
                  /\ Calls(t, "fetch_add") = {}
                  /\ s_stack_count = old[t].count
                  /\ heap = old[t].heap
                  /\ maps = old[t].maps
                  /\ noaccess = old[t].noaccess

C8_Witness ==
    \E t \in Threads :
        /\ AllocReturned(t, -1)
        /\ Calls(t, "mprotect") # {}
        /\ Calls(t, "munmap") # {}
        /\ maps = old[t].maps

\* C9: deallocate on a degenerate handle (bottom <= stacksize + guardsize)
\* does not change the live-stack counter and calls neither free nor munmap.
C9_DegenerateNoOp ==
    \A t \in Threads :
        (DeallocReturned(t) /\ DegenerateHandle(old[t].s)) =>
            /\ s_stack_count = old[t].count
            /\ Calls(t, "fetch_sub") = {}
            /\ Calls(t, "free") = {}
            /\ Calls(t, "munmap") = {}
            /\ heap = old[t].heap
            /\ maps = old[t].maps

C9_Witness ==
    \E t \in Threads :
        /\ DeallocReturned(t)
        /\ DegenerateHandle(old[t].s)
        /\ old[t].s.stacksize + old[t].s.guardsize > INT_MAX
        /\ s_stack_count = old[t].count

\* C10: deallocate releases a storage by the method it was obtained with and
\* with the original arguments: free(base) for a malloc block whose base is
\* base, munmap(base, len) for a mapping mmap returned at base with length
\* len, where base = bottom - (stacksize + guardsize).
C10_MatchingRelease ==
    \A t \in Threads :
        (DeallocReturned(t) /\ old[t].valid
            /\ ~DegenerateHandle(old[t].s)) =>
            LET st == old[t].s
                base == st.bottom - (st.stacksize + st.guardsize)
                rel == trace[t][Len(trace[t])]
            IN  /\ Cardinality(Calls(t, "free") \cup Calls(t, "munmap")) = 1
                /\ \/ /\ [base |-> base, size |-> st.stacksize]
                            \in old[t].heap
                      /\ st.guardsize = 0
                      /\ rel.op = "free" /\ rel.a = base
                   \/ /\ [base |-> base,
                          len |-> st.stacksize + st.guardsize]
                            \in old[t].maps
                      /\ st.guardsize > 0
                      /\ rel.op = "munmap" /\ rel.a = base
                      /\ rel.b = st.stacksize + st.guardsize

C10_Witness ==
    \E t \in Threads :
        /\ DeallocReturned(t) /\ old[t].valid
        /\ ~DegenerateHandle(old[t].s)
        /\ old[t].s.guardsize > 0
        /\ trace[t][Len(trace[t])].op = "munmap"
        /\ trace[t][Len(trace[t])].a % PAGESIZE # 0

\* The state right after a jump: the CPU is where the jump landed.
JustLanded ==
    last.valid /\ ~exited /\ cpu.reg["rip"] = last.landed
\* The context value fc denotes the suspended call site of context c: the
\* word the jump pops as the resume address is c's return address.
DenotesCallSite(fc, c) ==
    /\ fc + 56 \in Words
    /\ StackLo(c) <= fc /\ fc + 56 < StackHi(c)
    /\ cpu.mem[fc + 56] = RET_JUMP(c)

\* C11 as stated: the code a jump resumes receives, in what the jump
\* returns (%rax, %rdx), the context of the switcher.
C11_ResumerReturned ==
    (JustLanded /\ ~last.fresh) =>
        \E r \in {"rax", "rdx"} : DenotesCallSite(cpu.reg[r], last.from)

\* C11 amended: the code a jump resumes receives the transfer value as the
\* return value; the context of the switcher is not returned but is in the
\* from_slot the switcher passed, where it denotes the switcher's call site
\* (as it does for the code a first jump enters).
C11_ResumerInSlot ==
    JustLanded =>
        /\ DenotesCallSite(cpu.mem[SlotAddr(last.from)], last.from)
        /\ status[last.from] = "suspended"
        /\ ~last.fresh => cpu.reg["rax"] = last.sent

C11_Witness ==
    /\ JustLanded /\ ~last.fresh
    /\ last.from \in Made
    /\ cpu.reg["rax"] = last.sent
    /\ DenotesCallSite(cpu.mem[SlotAddr(last.from)], last.from)
    /\ cpu.reg["rdx"] # cpu.mem[SlotAddr(last.from)]

\* The page multiple not below max(S, MIN_STACKSIZE).
RoundedUp(S) ==
    ((Max(S, MIN_STACKSIZE) + PAGESIZE_M1) \div PAGESIZE) * PAGESIZE

\* C12: an allocate asked for a guard size <= 0 calls neither mmap nor
\* mprotect (nor munmap); it calls malloc exactly once, with the rounded
\* stack size as the code computes it, which on success is the page multiple
\* not below max(S, two pages); it records guardsize 0; and it returns -1
\* exactly when malloc returned NULL.
C12_UnguardedMallocOnly ==
    \A t \in Threads :
        (lv[t].fn = "allocate" /\ lv[t].guardsize_in <= 0) =>
            /\ Calls(t, "mmap") = {}
            /\ Calls(t, "mprotect") = {}
            /\ Calls(t, "munmap") = {}
            /\ Cardinality(Calls(t, "malloc")) = 1
            /\ trace[t][1].op = "malloc"
            /\ trace[t][1].a = ToSizeT(stacksize_of(lv[t].stacksize_in))
            /\ pc[t] = "ret" =>
                  /\ (ret[t] = -1) <=> (trace[t][1].r = NULL)
                  /\ ret[t] = 0 =>
                        /\ s[t].guardsize = 0
                        /\ trace[t][1].a = RoundedUp(lv[t].stacksize_in)
                        /\ s[t].stacksize = trace[t][1].a

C12_Witness ==
    \E t \in Threads :
        /\ AllocReturned(t, 0)
        /\ lv[t].guardsize_in = 0
        /\ lv[t].stacksize_in = MIN_STACKSIZE + 1
        /\ trace[t][1].op = "malloc"
        /\ trace[t][1].a = 3 * PAGESIZE
        /\ s[t].guardsize = 0

\* The storages allocated and not yet deallocated.
LiveStorages == {t \in Threads : live[t]}
\* A step of a successful allocate that counts, and one of a deallocate of
\* a non-degenerate handle.
CountsUp(t) ==
    /\ pc[t] = "a_finish" /\ pc'[t] = "ret" /\ ret'[t] = 0
    /\ s_stack_count' = s_stack_count + 1
CountsDown(t) ==
    /\ pc[t] = "d_count" /\ ~DegenerateHandle(s[t])
    /\ s_stack_count' = s_stack_count - 1

\* C13: the live-stack counter starts at 0; a step changes it only as the
\* +1 of a successful allocate or the -1 of a deallocate of a
\* non-degenerate handle; it is never negative; and whenever no call is in
\* progress it is the number of storages allocated and not yet deallocated.
C13_CounterIsLiveCount ==
    /\ s_stack_count = 0
    /\ [](s_stack_count >= 0)
    /\ []((\A t \in Threads : pc[t] \in {"idle", "ret"}) =>
            s_stack_count = Cardinality(LiveStorages))
    /\ [][s_stack_count' # s_stack_count =>
            \E t \in Threads : CountsUp(t) \/ CountsDown(t)]_vars

C13_Witness ==
    /\ \A t \in Threads : pc[t] = "idle"
    /\ s_stack_count = 1
    /\ \E t, u \in Threads :
          /\ live[t] /\ ~live[u]
          /\ s[u] # ZeroStorage
          /\ s[t].guardsize > 0

\* The contexts whose code the CPU executes.
Executing == {c \in Ctxs : Running(c)}
\* A step that is a call of bthread_jump_fcontext.
IsJump == njumps' = njumps + 1

\* C14: until an entry function returns exactly one context executes, and
\* none after; the executing context changes only by a jump that the
\* executing context makes, to the context whose saved context the jump
\* names, or by the return of an entry function into the trampoline; and
\* every jump makes the context it names the executing one.
C14_OneContextExecutes ==
    /\ [](Cardinality(Executing) = (IF returned THEN 0 ELSE 1))
    /\ [][Executing' # Executing =>
            \/ /\ IsJump
               /\ Executing = {last'.from}
               /\ status[last'.to] \in {"fresh", "suspended"}
            \/ /\ ~returned /\ returned'
               /\ cpu'.reg["rip"] = FINISH]_vars
    /\ [][IsJump => Executing' = {last'.to} /\ last'.to # last'.from]_vars

C14_Witness ==
    /\ Executing = {0}
    /\ njumps = 2
    /\ ~last.fresh /\ last.from \in Made
    /\ status[last.from] = "suspended"
    /\ cpu.reg["rip"] = RET_JUMP(0)

\* The failure diagnostics of thread t's call.
FailureLogs(t) ==
    Calls(t, LOG_MALLOC) \cup Calls(t, LOG_MMAP) \cup Calls(t, LOG_MPROTECT)

\* What holds of an allocate that has returned, and of its diagnostics.
AllocateReported ==
    /\ LOG_MMAP \notin {LOG_MALLOC, LOG_MPROTECT, LOG_ALIGN}
    /\ \A t \in Threads :
          (pc[t] = "ret" /\ lv[t].fn = "allocate") =>
              /\ ret[t] \in {0, -1}
              /\ (ret[t] = 0) <=> live[t]
              /\ Cardinality(FailureLogs(t)) <= 1
              /\ ret[t] = 0 => FailureLogs(t) = {}
              /\ \A i \in Calls(t, LOG_MMAP) :
                    /\ ret[t] = -1
                    /\ trace[t][1].op = "mmap" /\ trace[t][1].r = MAP_FAILED
                    /\ trace[t][i].a = lv[t].memsize
              /\ \A i \in Calls(t, LOG_MALLOC) :
                    /\ ret[t] = -1
                    /\ trace[t][1].op = "malloc" /\ trace[t][1].r = NULL
              /\ \A i \in Calls(t, LOG_MPROTECT) :
                    /\ ret[t] = -1
                    /\ trace[t][1].op = "mmap" /\ trace[t][1].r # MAP_FAILED
                    /\ \A j \in Calls(t, "mprotect") : trace[t][j].r # 0
                    /\ Calls(t, "munmap") # {}

\* C15: allocate returns 0 or -1, -1 exactly when malloc, mmap or the
\* protection step failed; a call writes at most one failure diagnostic and
\* none when it succeeds; the diagnostic of a failed mmap has its own text
\* and carries the size and the current stack count, and each diagnostic is
\* written only for its own cause; the stack count in the diagnostic of a
\* failed mmap is the counter at that moment.
C15_FailureReported ==
    /\ []AllocateReported
    /\ [][\A t \in Threads :
            (pc[t] = "idle" /\ pc'[t] = "ret") =>
                \A i \in {j \in DOMAIN trace'[t] :
                              trace'[t][j].op = LOG_MMAP} :
                    trace'[t][i].b = s_stack_count]_vars

C15_Witness ==
    \E t \in Threads :
        /\ AllocReturned(t, -1)
        /\ s_stack_count = 1
        /\ \E i \in Calls(t, LOG_MMAP) : trace[t][i].b = 1
        /\ trace[t][1].r = MAP_FAILED

\* The bytes between the stack pointer at a call of jump_fcontext and the
\* context it records: the return address, six registers, the FPU slot.
FRAME == 8 + 6 * 8 + 8

\* C16: the context a jump records in from_slot is the caller's stack
\* pointer after the return address, the callee-saved registers and the
\* FPU slot have been pushed (not the stack pointer loaded from the
\* target), and it stays there while the caller is suspended; a jump to it
\* lands at the instruction after the suspended call with the stack pointer
\* the caller had before the call, which is its value after a return.
C16_RecordThenResume ==
    /\ \A c \in Ctxs :
          status[c] = "suspended" =>
              /\ cpu.mem[SlotAddr(c)] = site[c].sp - FRAME
              /\ DenotesCallSite(cpu.mem[SlotAddr(c)], c)
    /\ (JustLanded /\ ~last.fresh) =>
          /\ cpu.reg["rip"] = RET_JUMP(last.to)
          /\ cpu.reg["rsp"] = site[last.to].sp

C16_Witness ==
    /\ JustLanded /\ ~last.fresh
    /\ last.to \in Made
    /\ cpu.reg["rsp"] = site[last.to].sp
    /\ site[last.to].sp # FrameSp(last.to)
    /\ cpu.mem[SlotAddr(last.from)] = site[last.from].sp - FRAME
    /\ cpu.mem[SlotAddr(last.from)] # cpu.mem[SlotAddr(last.to)]

\* C17: when a suspended call of jump_fcontext is resumed, each of rbp, rbx,
\* r12, r13, r14, r15 holds the value it held when the call was made,
\* whatever the contexts that ran in between left in those registers.
C17_CalleeSavedPreserved ==
    (JustLanded /\ ~last.fresh) =>
        \A r \in Preserved : cpu.reg[r] = site[last.to].reg[r]

C17_Witness ==
    /\ JustLanded /\ ~last.fresh
    /\ \A r \in Preserved :
          /\ cpu.reg[r] = site[last.to].reg[r]
          /\ site[last.to].reg[r] # site[last.from].reg[r]
    /\ \A q, r \in Preserved : q # r => cpu.reg[q] # cpu.reg[r]

\* The state right after a jump, on either platform.
Landed ==
    /\ last.valid /\ ~exited
    /\ cpu.reg[IF platform = "linux_arm64" THEN "pc" ELSE "rip"] = last.landed
\* The context the jump recorded, and the one it switched to.
FromFrame == cpu.mem[SlotAddr(last.from)]
TargetFrame ==
    IF platform = "linux_arm64" THEN cpu.reg["sp"] - ARM_FRAME
    ELSE cpu.reg["rsp"] - FRAME
\* linux_x86_64: MXCSR and the x87 control word.
X86FpSaved ==
    /\ cpu.mem[FromFrame] % HALF = site[last.from].reg["mxcsr"]
    /\ (cpu.mem[FromFrame] \div HALF) % CWBASE = site[last.from].reg["fpucw"]
X86FpUntouched == cpu.mem[FromFrame] = site[last.from].fpmem[1]
X86FpLoaded ==
    /\ cpu.reg["mxcsr"] = cpu.mem[TargetFrame] % HALF
    /\ cpu.reg["fpucw"] = (cpu.mem[TargetFrame] \div HALF) % CWBASE
X86FpKept ==
    /\ cpu.reg["mxcsr"] = site[last.from].reg["mxcsr"]
    /\ cpu.reg["fpucw"] = site[last.from].reg["fpucw"]
\* linux_arm64: d8 - d15.
ArmFpSaved ==
    \A i \in DOMAIN ArmFP :
        cpu.mem[FromFrame + 8 * (i - 1)] = site[last.from].reg[ArmFP[i]]
ArmFpUntouched ==
    \A i \in DOMAIN ArmFP :
        cpu.mem[FromFrame + 8 * (i - 1)] = site[last.from].fpmem[i]
ArmFpLoaded ==
    \A i \in DOMAIN ArmFP :
        cpu.reg[ArmFP[i]] = cpu.mem[TargetFrame + 8 * (i - 1)]
ArmFpKept ==
    \A i \in DOMAIN ArmFP :
        cpu.reg[ArmFP[i]] = site[last.from].reg[ArmFP[i]]

\* C18 as stated: on linux x86_64 and on linux arm64 alike, a jump with
\* preserve_fpu = false leaves the words of the floating-point save area of
\* the current stack as they were and the floating-point state of the CPU
\* as the caller had it; a jump with preserve_fpu = true has the caller's
\* floating-point state in the context it recorded and the CPU's loaded
\* from the context it switched to.
C18_FpuExactlyWhenAsked ==
    Landed =>
        IF platform = "linux_arm64"
        THEN IF site[last.from].fpu = 0
             THEN ArmFpUntouched /\ ArmFpKept
             ELSE ArmFpSaved /\ ArmFpLoaded
        ELSE IF site[last.from].fpu = 0
             THEN X86FpUntouched /\ X86FpKept
             ELSE X86FpSaved /\ X86FpLoaded

\* C18 amended: that holds on linux x86_64; on linux arm64 every jump,
\* whatever preserve_fpu is, saves d8 - d15 in the context it records and
\* loads them from the context it switches to.
C18_FpuByPlatform ==
    Landed =>
        IF platform = "linux_arm64"
        THEN ArmFpSaved /\ ArmFpLoaded
        ELSE IF site[last.from].fpu = 0
             THEN X86FpUntouched /\ X86FpKept
             ELSE X86FpSaved /\ X86FpLoaded

C18_Witness ==
    /\ Landed /\ ~last.fresh
    /\ platform = "linux_x86_64"
    /\ site[last.from].fpu = 0
    /\ X86FpUntouched /\ X86FpKept
    /\ ~X86FpSaved /\ ~X86FpLoaded

\* A call of bthread_make_fcontext, and what it was called with and
\* returned: %rdi and %rsi are as passed, %rax is the result.
IsMake == \E n \in Made : status[n] = "none" /\ status'[n] = "fresh"
MadeCtx(mc) == mc.reg["rax"]
MakeEffect ==
    \E c \in Ctxs, n \in Made :
        /\ Running(c) /\ status[n] = "none"
        \* no code of the entry function has run
        /\ cpu'.reg["rip"] = RET_MAKE(c)
        /\ started' = started /\ arg' = arg /\ ~returned'
        \* every word written lies in the frame; the calling code
        \* writes two more around the call: the return address the call
        \* instruction pushes, and the variable it assigns the result to
        /\ \A a \in Words \ {cpu'.reg["rsp"] - 8, SlotAddr(n)} :
              cpu'.mem[a] # cpu.mem[a] =>
                  /\ MadeCtx(cpu') <= a
                  /\ a < MadeCtx(cpu') + MAKE_FRAME
        \* the frame lies in the stack handed over
        /\ cpu'.reg["rsi"] >= MAKE_FRAME + 15 =>
              /\ cpu'.reg["rdi"] - cpu'.reg["rsi"] <= MadeCtx(cpu')
              /\ MadeCtx(cpu') + MAKE_FRAME <= cpu'.reg["rdi"]
        \* fn and the trampoline
        /\ cpu'.mem[MadeCtx(cpu') + 56] = ENTRY(n)
        /\ cpu'.mem[MadeCtx(cpu') + 64] = FINISH
        /\ cpu'.mem[SlotAddr(n)] = MadeCtx(cpu')
\* The first jump to a made context pops the word at 0x38 of the frame as
\* the address to resume at and leaves %rsp at the word at 0x40.
FirstJumpPops ==
    (JustLanded /\ last.fresh) =>
        /\ last.landed = cpu.mem[cpu.mem[SlotAddr(last.to)] + 56]
        /\ cpu.reg["rsp"] = cpu.mem[SlotAddr(last.to)] + 64

\* C19: a call of make_fcontext returns to its caller without running any
\* code of fn; the only words it changes lie in the frame [ctx, ctx + 0x48)
\* it returns; that frame lies in [stack_top - stack_size, stack_top) when
\* stack_size >= 0x48 + 15; fn is in the word at 0x38, which is the word
\* the first jump to the context pops as the address to resume at, and the
\* address of finish is in the word above it, at 0x40.
C19_MakeIsPureSetup ==
    /\ [][IsMake => MakeEffect]_vars
    /\ []FirstJumpPops

C19_Witness ==
    \E c \in Ctxs, n \in Made :
        /\ cpu.reg["rip"] = RET_MAKE(c) /\ status[n] = "fresh"
        /\ cpu.reg["rsi"] = MAKE_FRAME + 15
        /\ MadeCtx(cpu) = cpu.reg["rdi"] - cpu.reg["rsi"]
        /\ cpu.mem[MadeCtx(cpu) + 56] = ENTRY(n)
        /\ cpu.mem[MadeCtx(cpu) + 64] = FINISH

\* Every call named a comes before every call named b in thread t's call.
Before(t, a, b) ==
    \A i \in Calls(t, a), j \in Calls(t, b) : i < j
Releases(t) == Calls(t, "free") \cup Calls(t, "munmap")

\* C20: a deallocate on a degenerate handle (bottom <= stacksize +
\* guardsize) makes no deregistration call; on any other handle it
\* deregisters (when the instrumentation is active), then decrements the
\* counter, then releases the memory.
C20_DeregisterUnlessDegenerate ==
    \A t \in Threads :
        DeallocReturned(t) =>
            IF DegenerateHandle(old[t].s)
            THEN Calls(t, "stack_deregister") = {}
            ELSE /\ on_valgrind =>
                       Cardinality(Calls(t, "stack_deregister")) = 1
                 /\ Cardinality(Calls(t, "fetch_sub")) = 1
                 /\ Cardinality(Releases(t)) = 1
                 /\ Before(t, "stack_deregister", "fetch_sub")
                 /\ Before(t, "fetch_sub", "free")
                 /\ Before(t, "fetch_sub", "munmap")

\* The FPU control state the CPU has now is the one context c had at its
\* latest call of jump_fcontext, or the one make_fcontext captured for it.
FpStateOf(c) ==
    /\ cpu.reg["mxcsr"] = site[c].reg["mxcsr"]
    /\ cpu.reg["fpucw"] = site[c].reg["fpucw"]

\* C21 as stated: a jump with preserve_fpu = true lands with the MXCSR and
\* x87 control word the target had when it was last suspended (or that
\* make_fcontext captured, if it has never run), whatever preserve_fpu the
\* suspending jump used.
C21_FpuStateResumed ==
    (JustLanded /\ site[last.from].fpu = 1) => FpStateOf(last.to)

\* C21 amended: that holds when the target has never run or its suspending
\* jump used preserve_fpu = true as well.
C21_FpuStateResumedIfSaved ==
    (JustLanded /\ site[last.from].fpu = 1
        /\ (last.fresh \/ site[last.to].fpu = 1)) => FpStateOf(last.to)

C21_Witness ==
    /\ JustLanded /\ ~last.fresh
    /\ site[last.from].fpu = 1 /\ site[last.to].fpu = 1
    /\ FpStateOf(last.to)
    /\ site[last.to].reg["mxcsr"] # site[last.from].reg["mxcsr"]

\* C22: during and after a deallocate the handle has the bottom, stacksize,
\* guardsize and valgrind_stack_id it was passed with, for a degenerate
\* handle and for any other; the handle of a released storage still has
\* bottom > stacksize + guardsize.
C22_HandleUntouched ==
    \A t \in Threads :
        lv[t].fn = "deallocate" =>
            /\ s[t] = old[t].s
            /\ DegenerateHandle(s[t]) <=> DegenerateHandle(old[t].s)
            /\ degenerate(s[t]) <=> degenerate(old[t].s)

C22_Witness ==
    \E t \in Threads :
        /\ DeallocReturned(t)
        /\ Releases(t) # {}
        /\ s[t] = old[t].s
        /\ s[t].guardsize > 0
        /\ ~degenerate(s[t])

\* The alignment the ABI has at a function's first instruction: the stack
\* pointer is 8 below a multiple of 16, the return address on top.
ABI_ALIGN == 16

\* C23: the first jump into a made context lands at the entry function
\* with a stack pointer sp where sp + 8 is a multiple of 16 and the word at
\* sp is the address of finish, whether the stack_top given to
\* make_fcontext was a multiple of 16 or not.
C23_EntryAligned ==
    (JustLanded /\ last.fresh) =>
        /\ cpu.reg["rip"] = ENTRY(last.to)
        /\ (cpu.reg["rsp"] + 8) % ABI_ALIGN = 0
        /\ cpu.mem[cpu.reg["rsp"]] = FINISH

\* A first entry on a stack whose top was not a multiple of 16: the
\* alignment took a whole 16 bytes off.
C23_Witness ==
    /\ JustLanded /\ last.fresh
    /\ cpu.reg["rsp"] + 8 = StackHi(last.to) - ABI_ALIGN
    /\ (cpu.reg["rsp"] + 8) % ABI_ALIGN = 0
    /\ cpu.mem[cpu.reg["rsp"]] = FINISH

\* Neither rounding of the requested sizes leaves the range of int.
RoundingFits(stacksize_in, guardsize_in) ==
    /\ Max(stacksize_in, MIN_STACKSIZE) + PAGESIZE_M1 <= INT_MAX
    /\ Max(guardsize_in, MIN_GUARDSIZE) + PAGESIZE_M1 <= INT_MAX
\* Thread t's allocate is on the guarded path and has its mapping.
GuardedMapped(t) ==
    /\ lv[t].fn = "allocate"
    /\ ~unguarded(lv[t].guardsize_in)
    /\ lv[t].mem # MAP_FAILED

\* C24: on the guarded path of an allocate whose roundings fit an int,
\* 0 <= offset < PAGESIZE <= guardsize for the address mmap returned, so
\* guardsize <= offset is false and every mprotect has a positive length;
\* such an allocate returns -1 only when mmap returned MAP_FAILED or
\* mprotect failed.
C24_OffsetBelowGuard ==
    \A t \in Threads :
        (lv[t].fn = "allocate" /\ ~unguarded(lv[t].guardsize_in)
            /\ RoundingFits(lv[t].stacksize_in, lv[t].guardsize_in)) =>
            /\ GuardedMapped(t) =>
                  /\ 0 <= offset_of(lv[t].mem)
                  /\ offset_of(lv[t].mem) < PAGESIZE
                  /\ PAGESIZE <= lv[t].guardsize
                  /\ ~(lv[t].guardsize <= offset_of(lv[t].mem))
            /\ \A i \in Calls(t, "mprotect") : trace[t][i].b > 0
            /\ AllocReturned(t, -1) =>
                  \/ lv[t].mem = MAP_FAILED
                  \/ \E i \in Calls(t, "mprotect") : trace[t][i].r # 0

\* The tightest case: a guard of one page and a mapping one byte above a
\* page boundary.
C24_Witness ==
    \E t \in Threads :
        /\ AllocReturned(t, 0) /\ GuardedMapped(t)
        /\ RoundingFits(lv[t].stacksize_in, lv[t].guardsize_in)
        /\ lv[t].guardsize = PAGESIZE
        /\ offset_of(lv[t].mem) = PAGESIZE_M1
        /\ \E i \in Calls(t, "mprotect") : trace[t][i].b = 1

====
